---- MODULE Spec2Model ----
(***************************************************************************)
(* Filter-and-bin mapmaking of filter_and_bin_mapmaking.ipynb: the grid    *)
(* definition, the turnaround filter, Calibrate (both versions) and        *)
(* SingleMapBinner, run by a G3Pipeline over a stream of frames.           *)
(*                                                                         *)
(* Numbers: angles are integers in radians (U.rad = 1), samples are        *)
(* integers, and every quotient is an exact rational <<num, den>>.         *)
(* Rounding of float64 arithmetic is not modelled.                         *)
(***************************************************************************)
EXTENDS Integers, Sequences, FiniteSets, Bags, TLC

VARIABLES
    nx, ny,              \* number of bins along each axis (module globals)
    ra_edges, dec_edges, \* bin edges (module globals)
    binner,              \* the SingleMapBinner instance: det, timestreams, data, hits
    pc,                  \* where pipe.Run is: which module gets the frame next
    frame,               \* the frame in flight, NoFrame between frames
    nread,               \* frames the reader has yielded so far
    err,                 \* the exception that ended pipe.Run, "none" if none
    m,                   \* the displayed map, NotFormed before line 491 runs
    trace,               \* history: <<module, frame number, what it did>> of each call
    fell,                \* history: per pixel, the samples whose pointing fell in it
    stream,              \* the records handed to two binners in two orders
    order,               \* the order in which the other binner gets them
    other,               \* a second SingleMapBinner instance
    calibrated,          \* the frame after each version of Calibrate
    filtered,            \* the records after one and after two passes of MeanFilter
    mask,                \* the MaskedMeanFilter instance: center, radius
    parts                \* the SingleMapBinner instances that share a stream

vars == <<nx, ny, ra_edges, dec_edges, binner, pc, frame, nread, err, m, trace, fell,
          stream, order, other, calibrated, filtered, mask, parts>>

----------------------------------------------------------------------------
(* Bounds of the model *)

\* frames the reader yields at most
MaxFrames == 2
\* samples per timestream of a scan frame
NSamp == 2

----------------------------------------------------------------------------
(* Exact rational arithmetic, standing for python floats *)

Abs(a) == IF a < 0 THEN -a ELSE a

RECURSIVE GCD(_, _)
GCD(a, b) == IF b = 0 THEN a ELSE GCD(b, a % b)

\* the rational n/d in lowest terms with a positive denominator (d # 0)
Rat(n, d) ==
    LET g == GCD(Abs(n), Abs(d))
        s == IF d < 0 THEN -1 ELSE 1
    IN  <<(s * n) \div g, (s * d) \div g>>

ToRat(i) == <<i, 1>>
RAdd(a, b) == Rat(a[1] * b[2] + b[1] * a[2], a[2] * b[2])
RSub(a, b) == Rat(a[1] * b[2] - b[1] * a[2], a[2] * b[2])
RMul(a, b) == Rat(a[1] * b[1], a[2] * b[2])
RLe(a, b) == a[1] * b[2] <= b[1] * a[2]
RLt(a, b) == a[1] * b[2] < b[1] * a[2]

\* the floats that are no numbers have denominator 0
NaN == <<0, 0>>
PosInf == <<1, 0>>
NegInf == <<-1, 0>>
IsFinite(a) == a[2] # 0

\* a / b as numpy divides floats, b a finite number:
\* 0/0 is nan, x/0 is +-inf, nan stays nan and inf stays inf (of the sign of a*b)
FloatDiv(a, b) ==
    CASE a = NaN -> NaN
      [] a # NaN /\ b[1] = 0 ->
            IF a[1] = 0 THEN NaN ELSE IF a[1] > 0 THEN PosInf ELSE NegInf
      [] a # NaN /\ b[1] # 0 /\ ~IsFinite(a) ->
            IF a[1] * b[1] > 0 THEN PosInf ELSE NegInf
      [] OTHER -> Rat(a[1] * b[2], a[2] * b[1])

----------------------------------------------------------------------------
(* Units and calibration data *)

\* core.G3Units: rad is the unit of angle, mK of temperature
U == [rad |-> 1, mK |-> <<1, 1000>>]

\* detectors that occur in the timestreams
Dets == {"d0", "d1", "dU"}

\* calframe["DetectorCalibration"]
cal == [d \in Dets |-> CASE d = "d0" -> 2 [] d = "d1" -> 3 [] OTHER -> 1]

\* calframe["DetectorXOffset"], calframe["DetectorYOffset"]: "dU" has no entry
xoff == [d \in {"d0", "d1"} |-> IF d = "d0" THEN 0 ELSE 1]
yoff == [d \in {"d0", "d1"} |-> IF d = "d0" THEN 0 ELSE 1]

\* core.G3TimestreamUnits.values[calframe["DetectorCalibrationUnits"]]
cal_units == "Tcmb"
RawUnits == "Counts"

\* np.cos of an angle of a whole number of radians, to three decimals
Cos(y) ==
    LET a == Abs(y)
    IN  CASE a = 0 -> Rat(1000, 1000)
          [] a = 1 -> Rat(540, 1000)
          [] a = 2 -> Rat(-416, 1000)
          [] a = 3 -> Rat(-990, 1000)
          [] OTHER -> Rat(-654, 1000)

----------------------------------------------------------------------------
(* The pixel grid *)

\* np.linspace(start, stop, num): num evenly spaced values, both ends included
Linspace(start, stop, num) ==
    [k \in 1..num |->
        IF num = 1 THEN start
        ELSE RAdd(start, RMul(RSub(stop, start), Rat(k - 1, num - 1)))]

\* int(xlen / res): truncation of a positive quotient
NumBins(len, res) == len \div res

\* mutant: np.linspace(-len / 2, len / 2, n) + center, one edge short
EdgesOneShort(len, n, center) ==
    LET l == Linspace(Rat(-len, 2), Rat(len, 2), n)
    IN  [k \in 1..n |-> RAdd(l[k], ToRat(center))]

\* np.linspace(-len / 2, len / 2, n + 1) + center
Edges(len, n, center) ==
    LET l == Linspace(Rat(-len, 2), Rat(len, 2), n + 1)
    IN  [k \in 1..(n + 1) |-> RAdd(l[k], ToRat(center))]

\* the grid parameters a run may be configured with:
\* center (ra0, dec0), dimensions (xlen, ylen), resolution res
XLens == {2, 3}
YLens == {1, 2}
Ress == {1, 2}
GridParams ==
    { gp \in [ra0 : {1}, dec0 : {0}, xlen : XLens, ylen : YLens, res : Ress] :
        gp.xlen >= gp.res /\ gp.ylen >= gp.res }

Pixels == (1..ny) \X (1..nx)

\* np.zeros((ny, nx), dtype=float)
Zeros == [p \in Pixels |-> 0]

----------------------------------------------------------------------------
(* Frames *)

NoFrame == [none |-> TRUE]

\* key in frame
Has(fr, key) == key \in DOMAIN fr

\* fr.get(key, default)
Get(fr, key, default) == IF key \in DOMAIN fr THEN fr[key] ELSE default

\* frame[key] = value on a frame: the key is added
Put(fr, key, value) ==
    [k \in DOMAIN fr \cup {key} |-> IF k = key THEN value ELSE fr[k]]

\* a G3Timestream: samples, units and the times of the first and last sample
Timestream(samples, units, start, stop) ==
    [data |-> samples, units |-> units, start |-> start, stop |-> stop]

\* frame["RawTimestreams"] of a scan frame: the detectors of dom, all of the
\* same start, stop and length
RawMap(dom, samples) ==
    [d \in dom |-> Timestream(samples, RawUnits, 0, Len(samples) - 1)]

\* a scan frame: boresight pointing and raw timestreams, Turnaround set or not
ScanFrame(turn, dom, samples, dec, ra) ==
    LET keys == {"BoresightDec", "BoresightRa", "RawTimestreams"}
                \cup (IF turn = "absent" THEN {} ELSE {"Turnaround"})
    IN  [k \in keys |->
            CASE k = "BoresightDec" -> dec
              [] k = "BoresightRa" -> ra
              [] k = "RawTimestreams" -> RawMap(dom, samples)
              [] OTHER -> (turn = "true")]

\* a frame without timestreams (a calibration or observation frame)
BareFrame(turn) ==
    [k \in (IF turn = "absent" THEN {} ELSE {"Turnaround"}) |-> (turn = "true")]

Turns == {"absent", "true", "false"}
Vals == {1, 2}
DecVals == {0, 1}
RaVals == {0, 2}
Steps == {0, 1}
Domains == {{}, {"d1"}, Dets}

\* a scan at constant declination, right ascension moving by step per sample
DecScan(dec) == [k \in 1..NSamp |-> dec]
RaScan(ra, step) == [k \in 1..NSamp |-> ra + (k - 1) * step]

\* raw sample patterns of a scan: flat at each value, and a ramp
Samplings == { [k \in 1..NSamp |-> v] : v \in Vals } \cup { [k \in 1..NSamp |-> k] }

\* the frames the reader may yield
Frames ==
    { BareFrame(t) : t \in Turns }
    \cup { ScanFrame(t, {}, [k \in 1..NSamp |-> 1], DecScan(d), RaScan(r, s)) :
              t \in Turns, d \in DecVals, r \in RaVals, s \in Steps }
    \cup { ScanFrame(t, dom, v, DecScan(d), RaScan(r, s)) :
              t \in Turns, dom \in Domains \ {{}}, v \in Samplings,
              d \in DecVals, r \in RaVals, s \in Steps }

----------------------------------------------------------------------------
(* The turnaround filter and Calibrate *)

\* mutant: the filter lets every frame through
KeepEveryFrame(fr) == TRUE

\* lambda fr: fr.get("Turnaround", False) == False
\* a module that returns False drops the frame
KeepFrame(fr) == Get(fr, "Turnaround", FALSE) = FALSE

\* ts_in.start, ts_in.stop of a G3TimestreamMap: those its timestreams share
MapStart(tsmap) ==
    IF DOMAIN tsmap = {} THEN 0 ELSE tsmap[CHOOSE d \in DOMAIN tsmap : TRUE].start
MapStop(tsmap) ==
    IF DOMAIN tsmap = {} THEN 0 ELSE tsmap[CHOOSE d \in DOMAIN tsmap : TRUE].stop

\* cal[det] raises KeyError for a detector without calibration
CalibrateRaises(fr) ==
    /\ Has(fr, "RawTimestreams")
    /\ \E d \in DOMAIN fr["RawTimestreams"] : d \notin DOMAIN cal

\* mutant: the loop version leaves the units of the raw timestream
CalibrateLoopRawUnits(fr) ==
    IF ~Has(fr, "RawTimestreams") \/ CalibrateRaises(fr) THEN fr
    ELSE LET ts_in == fr["RawTimestreams"]
             ts_out == [det \in DOMAIN ts_in |->
                 LET ts == ts_in[det]
                 IN  [ts EXCEPT !.data = [k \in DOMAIN ts.data |-> ts.data[k] * cal[det]]]]
         IN  Put(fr, "CalTimestreams", ts_out)

\* Calibrate, looping over the timestreams
CalibrateLoop(fr) ==
    IF ~Has(fr, "RawTimestreams") \/ CalibrateRaises(fr) THEN fr
    ELSE LET ts_in == fr["RawTimestreams"]
             ts_out == [det \in DOMAIN ts_in |->
                 LET ts == ts_in[det]
                     ts2 == [ts EXCEPT !.data = [k \in DOMAIN ts.data |-> ts.data[k] * cal[det]]]
                 IN  [ts2 EXCEPT !.units = cal_units]]
         IN  Put(fr, "CalTimestreams", ts_out)

\* Calibrate, on the 2D array of shape (ndet, nsamp): the one the pipeline runs
CalibrateArray(fr) ==
    IF ~Has(fr, "RawTimestreams") \/ CalibrateRaises(fr) THEN fr
    ELSE LET ts_in == fr["RawTimestreams"]
             dets == DOMAIN ts_in
             tsarr == [det \in dets |-> ts_in[det].data]
             calarr == [det \in dets |-> cal[det]]
             scaled == [det \in dets |->
                          [k \in DOMAIN tsarr[det] |-> tsarr[det][k] * calarr[det]]]
             ts_out == [det \in dets |->
                          Timestream(scaled[det], cal_units, MapStart(ts_in), MapStop(ts_in))]
         IN  Put(fr, "CalTimestreams", ts_out)

----------------------------------------------------------------------------
(* SingleMapBinner *)

\* SingleMapBinner.__init__(det, timestreams)
NewBinner(det, timestreams) ==
    [det |-> det, timestreams |-> timestreams, data |-> Zeros, hits |-> Zeros]

\* np.searchsorted(edges, v, side="right"): the number of edges <= v
SearchRight(edges, v) == Cardinality({k \in DOMAIN edges : RLe(edges[k], v)})

\* mutant: a value outside the edges is put in the nearest bin
BinIndexClipped(edges, v) ==
    IF SearchRight(edges, v) = 0 THEN 1
    ELSE IF SearchRight(edges, v) = Len(edges) THEN Len(edges) - 1
    ELSE SearchRight(edges, v)

\* the bin of v as np.histogramdd numbers it: 1..Len(edges)-1 are the bins,
\* a value on the last edge belongs to the last bin, 0 and Len(edges) are outside
BinIndex(edges, v) ==
    IF v = edges[Len(edges)] THEN SearchRight(edges, v) - 1 ELSE SearchRight(edges, v)

RECURSIVE SumSeq(_)
SumSeq(s) == IF s = <<>> THEN 0 ELSE Head(s) + SumSeq(Tail(s))

\* np.histogram2d(y, x, bins=[yedges, xedges], weights=w)[0]
Histogram2d(y, x, yedges, xedges, w) ==
    [p \in (1..(Len(yedges) - 1)) \X (1..(Len(xedges) - 1)) |->
        SumSeq([k \in DOMAIN y |->
            IF BinIndex(yedges, y[k]) = p[1] /\ BinIndex(xedges, x[k]) = p[2]
            THEN w[k] ELSE 0])]

Ones(s) == [k \in DOMAIN s |-> 1]

\* the offset pointing of the detector, lines 452-456
PointingY(det, fr) ==
    LET dy == yoff[det]
    IN  [k \in DOMAIN fr["BoresightDec"] |-> fr["BoresightDec"][k] - dy]

\* mutant: the cosine divides the boresight right ascension, not the offset
PointingXCosOnBoresight(det, fr) ==
    LET y == PointingY(det, fr)
    IN  [k \in DOMAIN fr["BoresightRa"] |->
            RAdd(FloatDiv(ToRat(fr["BoresightRa"][k]), Cos(y[k] \div U.rad)),
                 ToRat(xoff[det]))]

\* mutant: the cosine is of the boresight declination, the offset not yet taken
PointingXCosOfBoresightDec(det, fr) ==
    LET dx == [k \in DOMAIN fr["BoresightDec"] |->
                  FloatDiv(ToRat(xoff[det]), Cos(fr["BoresightDec"][k] \div U.rad))]
    IN  [k \in DOMAIN fr["BoresightRa"] |-> RAdd(ToRat(fr["BoresightRa"][k]), dx[k])]

PointingX(det, fr) ==
    LET y == PointingY(det, fr)
        dx == [k \in DOMAIN y |-> FloatDiv(ToRat(xoff[det]), Cos(y[k] \div U.rad))]
    IN  [k \in DOMAIN fr["BoresightRa"] |-> RAdd(ToRat(fr["BoresightRa"][k]), dx[k])]

\* __call__ returns early: the frame has no timestreams of the detector
BinnerSkips(b, fr) ==
    \/ ~Has(fr, b.timestreams)
    \/ b.det \notin DOMAIN fr[b.timestreams]

\* mutant: the second early return is missing, frame[timestreams][det] raises
BinnerRaisesNoDetCheck(b, fr) ==
    /\ Has(fr, b.timestreams)
    /\ \/ b.det \notin DOMAIN fr[b.timestreams]
       \/ b.det \notin DOMAIN yoff
       \/ b.det \notin DOMAIN xoff

\* yoff[self.det] or xoff[self.det] raises KeyError
BinnerRaises(b, fr) ==
    /\ ~BinnerSkips(b, fr)
    /\ (b.det \notin DOMAIN yoff \/ b.det \notin DOMAIN xoff)

\* mutant: data = histogram instead of data += histogram
BinnerCallOverwrite(b, fr) ==
    IF BinnerSkips(b, fr) \/ BinnerRaises(b, fr) THEN b
    ELSE LET ts == fr[b.timestreams][b.det]
             yi == PointingY(b.det, fr)
             y == [k \in DOMAIN yi |-> ToRat(yi[k])]
             x == PointingX(b.det, fr)
             hd == Histogram2d(y, x, dec_edges, ra_edges, ts.data)
             hh == Histogram2d(y, x, dec_edges, ra_edges, Ones(ts.data))
         IN  [b EXCEPT !.data = hd,
                       !.hits = [p \in DOMAIN b.hits |-> b.hits[p] + hh[p]]]

\* mutant: the hits are binned at the boresight pointing, the offsets forgotten
BinnerCallBoresightHits(b, fr) ==
    IF BinnerSkips(b, fr) \/ BinnerRaises(b, fr) THEN b
    ELSE LET ts == fr[b.timestreams][b.det]
             yi == PointingY(b.det, fr)
             y == [k \in DOMAIN yi |-> ToRat(yi[k])]
             x == PointingX(b.det, fr)
             y0 == [k \in DOMAIN yi |-> ToRat(fr["BoresightDec"][k])]
             x0 == [k \in DOMAIN yi |-> ToRat(fr["BoresightRa"][k])]
             hd == Histogram2d(y, x, dec_edges, ra_edges, ts.data)
             hh == Histogram2d(y0, x0, dec_edges, ra_edges, Ones(ts.data))
         IN  [b EXCEPT !.data = [p \in DOMAIN b.data |-> b.data[p] + hd[p]],
                       !.hits = [p \in DOMAIN b.hits |-> b.hits[p] + hh[p]]]

\* the binner after __call__(frame)
BinnerCall(b, fr) ==
    IF BinnerSkips(b, fr) \/ BinnerRaises(b, fr) THEN b
    ELSE LET ts == fr[b.timestreams][b.det]
             yi == PointingY(b.det, fr)
             y == [k \in DOMAIN yi |-> ToRat(yi[k])]
             x == PointingX(b.det, fr)
             hd == Histogram2d(y, x, dec_edges, ra_edges, ts.data)
             hh == Histogram2d(y, x, dec_edges, ra_edges, Ones(ts.data))
         IN  [b EXCEPT !.data = [p \in DOMAIN b.data |-> b.data[p] + hd[p]],
                       !.hits = [p \in DOMAIN b.hits |-> b.hits[p] + hh[p]]]

\* the pixel the sample falls in: within its edges on both axes, the upper
\* edge excluded but for the last bin of an axis
InBin(edges, i, v) ==
    /\ RLe(edges[i], v)
    /\ \/ RLt(v, edges[i + 1])
       \/ i + 1 = Len(edges) /\ v = edges[i + 1]

RECURSIVE SeqToBag(_)
SeqToBag(s) == IF s = <<>> THEN EmptyBag ELSE SetToBag({Head(s)}) (+) SeqToBag(Tail(s))

\* history: the samples of the frame added to the bags of the pixels they fell in
Fallen(f, b, fr) ==
    IF BinnerSkips(b, fr) \/ BinnerRaises(b, fr) THEN f
    ELSE LET ts == fr[b.timestreams][b.det]
             yi == PointingY(b.det, fr)
             x == PointingX(b.det, fr)
             In(p) == SelectSeq([k \in DOMAIN ts.data |-> k],
                         LAMBDA k : /\ InBin(dec_edges, p[1], ToRat(yi[k]))
                                    /\ InBin(ra_edges, p[2], x[k]))
         IN  [p \in DOMAIN f |->
                f[p] (+) SeqToBag([j \in DOMAIN In(p) |-> ts.data[In(p)[j]]])]

----------------------------------------------------------------------------
(* The pipeline of lines 479-491 *)

NoBinner == [none |-> TRUE]
NoResult == <<>>
NoMask == [none |-> TRUE]
NotFormed == [formed |-> FALSE, value |-> <<>>]

\* m = binner.data / binner.hits / U.mK
MapOf(b) ==
    [p \in DOMAIN b.data |->
        FloatDiv(FloatDiv(ToRat(b.data[p]), ToRat(b.hits[p])), U.mK)]

Init ==
    /\ \E gp \in GridParams :
          /\ nx = NumBins(gp.xlen, gp.res)
          /\ ny = NumBins(gp.ylen, gp.res)
          /\ ra_edges = Edges(gp.xlen, nx, gp.ra0)
          /\ dec_edges = Edges(gp.ylen, ny, gp.dec0)
    /\ \E det \in Dets : binner = NewBinner(det, "CalTimestreams")
    /\ pc = "read"
    /\ frame = NoFrame
    /\ nread = 0
    /\ err = "none"
    /\ m = NotFormed
    /\ trace = <<>>
    /\ fell = [p \in Pixels |-> EmptyBag]
    /\ stream = <<>>
    /\ order = <<>>
    /\ other = NoBinner
    /\ calibrated = NoResult
    /\ filtered = NoResult
    /\ mask = NoMask
    /\ parts = <<>>

grid == <<nx, ny, ra_edges, dec_edges>>
aux == <<stream, order, other, calibrated, filtered, mask, parts>>

\* mutant: the reader yields the next frame while the last one still waits
\* for the binner
ReadAhead ==
    /\ pc \in {"read", "bin"}
    /\ nread < MaxFrames
    /\ \E fr \in Frames : frame' = fr
    /\ nread' = nread + 1
    /\ pc' = "filter"
    /\ UNCHANGED <<grid, binner, err, m, trace, fell, aux>>

\* core.G3Reader yields the next frame of the file
Read ==
    /\ pc = "read"
    /\ nread < MaxFrames
    /\ \E fr \in Frames : frame' = fr
    /\ nread' = nread + 1
    /\ pc' = "filter"
    /\ UNCHANGED <<grid, binner, err, m, trace, fell, aux>>

\* the turnaround filter gets the frame
Filter ==
    /\ pc = "filter"
    /\ trace' = Append(trace, <<"filter", nread,
                                IF KeepFrame(frame) THEN "kept" ELSE "dropped">>)
    /\ IF KeepFrame(frame)
       THEN pc' = "calibrate" /\ frame' = frame
       ELSE pc' = "read" /\ frame' = NoFrame
    /\ UNCHANGED <<grid, binner, nread, err, m, fell, aux>>

\* Calibrate gets the frame
Calibrate ==
    /\ pc = "calibrate"
    /\ trace' = Append(trace, <<"Calibrate", nread,
                                IF CalibrateRaises(frame) THEN "raised"
                                ELSE IF Has(frame, "RawTimestreams") THEN "stored"
                                ELSE "skipped">>)
    /\ frame' = CalibrateArray(frame)
    /\ IF CalibrateRaises(frame)
       THEN pc' = "error" /\ err' = "KeyError"
       ELSE pc' = "bin" /\ err' = err
    /\ UNCHANGED <<grid, binner, nread, m, fell, aux>>

\* the binner gets the frame, the last module of the pipeline
Bin ==
    /\ pc = "bin"
    /\ trace' = Append(trace, <<"binner", nread,
                                IF BinnerSkips(binner, frame) THEN "skipped"
                                ELSE IF BinnerRaises(binner, frame) THEN "raised"
                                ELSE "binned">>)
    /\ binner' = BinnerCall(binner, frame)
    /\ fell' = Fallen(fell, binner, frame)
    /\ IF BinnerRaises(binner, frame)
       THEN pc' = "error" /\ err' = "KeyError" /\ frame' = frame
       ELSE pc' = "read" /\ err' = err /\ frame' = NoFrame
    /\ UNCHANGED <<grid, nread, m, aux>>

\* the reader has no more frames: pipe.Run returns
EndStream ==
    /\ pc = "read"
    /\ pc' = "done"
    /\ UNCHANGED <<grid, binner, frame, nread, err, m, trace, fell, aux>>

\* line 491: the map is formed from the binner's arrays
FormMap ==
    /\ pc = "done"
    /\ m' = [formed |-> TRUE, value |-> MapOf(binner)]
    /\ pc' = "shown"
    /\ UNCHANGED <<grid, binner, frame, nread, err, trace, fell, aux>>

Next == Read \/ Filter \/ Calibrate \/ Bin \/ EndStream \/ FormMap

Spec == Init /\ [][Next]_vars

----------------------------------------------------------------------------
(* Two binners fed the same records in two orders *)

\* the records: calibrated scans of constant or rising signal, and one without
\* the detectors that have offsets
OrderVals == {[k \in 1..NSamp |-> 2], [k \in 1..NSamp |-> k]}
OrderFrames ==
    { CalibrateArray(ScanFrame("false", Dets, v, DecScan(0), RaScan(r, s))) :
        v \in OrderVals, r \in {0, 1}, s \in Steps }
    \cup { CalibrateArray(ScanFrame("false", {"dU"}, [k \in 1..NSamp |-> 1],
                                    DecScan(0), RaScan(0, 1))) }

InitOrder ==
    /\ \E gp \in {g \in GridParams : g.xlen = 2 /\ g.res = 1} :
          /\ nx = NumBins(gp.xlen, gp.res)
          /\ ny = NumBins(gp.ylen, gp.res)
          /\ ra_edges = Edges(gp.xlen, nx, gp.ra0)
          /\ dec_edges = Edges(gp.ylen, ny, gp.dec0)
    /\ \E det \in DOMAIN xoff \cap DOMAIN yoff :
          /\ binner = NewBinner(det, "CalTimestreams")
          /\ other = NewBinner(det, "CalTimestreams")
    /\ stream \in [1..MaxFrames -> OrderFrames]
    /\ order \in Permutations(1..MaxFrames)
    /\ pc = "ingest"
    /\ frame = NoFrame
    /\ nread = 0
    /\ err = "none"
    /\ m = NotFormed
    /\ trace = <<>>
    /\ fell = [p \in Pixels |-> EmptyBag]
    /\ calibrated = NoResult
    /\ filtered = NoResult
    /\ mask = NoMask
    /\ parts = <<>>

\* binner(frame) on the next record of the stream
IngestNext ==
    /\ nread < Len(stream)
    /\ binner' = BinnerCall(binner, stream[nread + 1])
    /\ nread' = nread + 1
    /\ UNCHANGED <<grid, mask, parts, pc, frame, err, m, trace, fell, stream, order, other,
                   calibrated, filtered>>

\* other(frame) on the next record in the other order
IngestOther ==
    /\ Len(trace) < Len(stream)
    /\ other' = BinnerCall(other, stream[order[Len(trace) + 1]])
    /\ trace' = Append(trace, <<"other", order[Len(trace) + 1]>>)
    /\ UNCHANGED <<grid, mask, parts, binner, pc, frame, nread, err, m, fell, stream, order,
                   calibrated, filtered>>

NextOrder == IngestNext \/ IngestOther

SpecOrder == InitOrder /\ [][NextOrder]_vars

----------------------------------------------------------------------------
(* The two versions of Calibrate on the same frame *)

\* the frames handed to Calibrate: every detector with samples of its own;
\* "dX" is a detector without calibration constant
CalDets == {"d0", "d1", "dX"}
Starts == {0, 4}
CalFrames ==
    { BareFrame(t) : t \in Turns }
    \cup UNION { { [RawTimestreams |->
                      [d \in dom |-> Timestream(v[d], RawUnits, st, st + NSamp - 1)]] :
                   v \in [dom -> [1..NSamp -> Vals]], st \in Starts } :
                 dom \in SUBSET CalDets }

\* what a call of a module leaves: the frame, and the exception if it raised
Outcome(fr, raised) == [frame |-> fr, err |-> IF raised THEN "KeyError" ELSE "none"]

InitCal ==
    /\ LET gp == CHOOSE g \in GridParams : g.xlen = 2 /\ g.ylen = 1 /\ g.res = 1
       IN  /\ nx = NumBins(gp.xlen, gp.res)
           /\ ny = NumBins(gp.ylen, gp.res)
           /\ ra_edges = Edges(gp.xlen, nx, gp.ra0)
           /\ dec_edges = Edges(gp.ylen, ny, gp.dec0)
    /\ binner = NewBinner("d0", "CalTimestreams")
    /\ frame \in CalFrames
    /\ calibrated = NoResult
    /\ pc = "calibrate"
    /\ nread = 1
    /\ err = "none"
    /\ m = NotFormed
    /\ trace = <<>>
    /\ fell = [p \in Pixels |-> EmptyBag]
    /\ stream = <<>>
    /\ order = <<>>
    /\ other = NoBinner
    /\ filtered = NoResult
    /\ mask = NoMask
    /\ parts = <<>>

\* the loop version is called on the frame
RunLoop ==
    /\ "loop" \notin DOMAIN calibrated
    /\ calibrated' = Put(calibrated, "loop",
                         Outcome(CalibrateLoop(frame), CalibrateRaises(frame)))
    /\ UNCHANGED <<grid, mask, parts, binner, pc, frame, nread, err, m, trace, fell,
                   stream, order, other, filtered>>

\* the array version is called on the frame
RunArray ==
    /\ "array" \notin DOMAIN calibrated
    /\ calibrated' = Put(calibrated, "array",
                         Outcome(CalibrateArray(frame), CalibrateRaises(frame)))
    /\ UNCHANGED <<grid, mask, parts, binner, pc, frame, nread, err, m, trace, fell,
                   stream, order, other, filtered>>

NextCal == RunLoop \/ RunArray

SpecCal == InitCal /\ [][NextCal]_vars

----------------------------------------------------------------------------
(* MeanFilter, the exercise of the Timestream Processing section: subtract   *)
(* from each detector timestream of a scan its mean, and store the result to *)
(* "FilteredTimestreams"                                                     *)

RECURSIVE RSum(_)
RSum(s) == IF s = <<>> THEN <<0, 1>> ELSE RAdd(Head(s), RSum(Tail(s)))

\* the arithmetic mean of the samples
Mean(samples) == FloatDiv(RSum(samples), ToRat(Len(samples)))

\* mutant: the sum of the samples is subtracted, the division forgotten
SubtractSum(samples) ==
    [k \in DOMAIN samples |-> RSub(samples[k], RSum(samples))]

\* the samples less their mean
SubtractMean(samples) ==
    [k \in DOMAIN samples |-> RSub(samples[k], Mean(samples))]

\* the filter on a timestream map: every detector by itself
MeanFilterMap(tsmap) ==
    [det \in DOMAIN tsmap |-> [tsmap[det] EXCEPT !.data = SubtractMean(tsmap[det].data)]]

\* a timestream map as floats
FloatMap(tsmap) ==
    [det \in DOMAIN tsmap |->
        [tsmap[det] EXCEPT !.data = [k \in DOMAIN tsmap[det].data |-> ToRat(tsmap[det].data[k])]]]

\* the MeanFilter module on a frame
MeanFilter(fr) ==
    IF ~Has(fr, "CalTimestreams") THEN fr
    ELSE Put(fr, "FilteredTimestreams", MeanFilterMap(FloatMap(fr["CalTimestreams"])))

\* the scans handed to the filter: every detector with samples of its own
FilterFrames ==
    { BareFrame("false") }
    \cup UNION { { CalibrateArray(
                     [RawTimestreams |->
                        [d \in dom |-> Timestream(v[d], RawUnits, 0, NSamp - 1)]]) :
                   v \in [dom -> [1..NSamp -> Vals]] } :
                 dom \in SUBSET {"d0", "d1"} }

InitFilter ==
    /\ LET gp == CHOOSE g \in GridParams : g.xlen = 2 /\ g.ylen = 1 /\ g.res = 1
       IN  /\ nx = NumBins(gp.xlen, gp.res)
           /\ ny = NumBins(gp.ylen, gp.res)
           /\ ra_edges = Edges(gp.xlen, nx, gp.ra0)
           /\ dec_edges = Edges(gp.ylen, ny, gp.dec0)
    /\ binner = NewBinner("d0", "FilteredTimestreams")
    /\ frame = NoFrame
    /\ filtered = NoResult
    /\ mask = NoMask
    /\ parts = <<>>
    /\ pc = "next"
    /\ nread = 0
    /\ err = "none"
    /\ m = NotFormed
    /\ trace = <<>>
    /\ fell = [p \in Pixels |-> EmptyBag]
    /\ stream = <<>>
    /\ order = <<>>
    /\ other = NoBinner
    /\ calibrated = NoResult

\* the next scan arrives; the results of the last one are still around
NextScan ==
    /\ pc = "next"
    /\ nread < MaxFrames
    /\ \E fr \in FilterFrames : frame' = fr
    /\ nread' = nread + 1
    /\ pc' = "once"
    /\ UNCHANGED <<grid, mask, parts, binner, err, m, trace, fell, stream, order, other,
                   calibrated, filtered>>

\* MeanFilter on the scan
FilterOnce ==
    /\ pc = "once"
    /\ filtered' = [once |-> MeanFilter(frame)]
    /\ pc' = "twice"
    /\ UNCHANGED <<grid, mask, parts, binner, frame, nread, err, m, trace, fell, stream, order,
                   other, calibrated>>

\* MeanFilter again, on the timestreams the first pass stored
FilterTwice ==
    /\ pc = "twice"
    /\ filtered' =
          [once |-> filtered.once,
           twice |-> IF ~Has(filtered.once, "FilteredTimestreams") THEN filtered.once
                     ELSE [filtered.once EXCEPT !["FilteredTimestreams"] =
                              MeanFilterMap(filtered.once["FilteredTimestreams"])]]
    /\ pc' = "next"
    /\ UNCHANGED <<grid, mask, parts, binner, frame, nread, err, m, trace, fell, stream, order,
                   other, calibrated>>

NextFilter == NextScan \/ FilterOnce \/ FilterTwice

SpecFilter == InitFilter /\ [][NextFilter]_vars

----------------------------------------------------------------------------
(* MaskedMeanFilter, the second exercise of the section: the mean of a        *)
(* detector timestream is taken over the samples that point farther than a   *)
(* radius from the source, and subtracted from every sample                  *)

\* a - b on floats, a a number: nan stays nan
FloatSub(a, b) == IF b = NaN THEN NaN ELSE RSub(a, b)

\* the pointing (x, y) lies farther than radius from center; the separation is
\* taken flat in the two coordinates and compared by its square
Outside(x, y, center, radius) ==
    LET dx == RSub(x, ToRat(center.ra))
        dy == ToRat(y - center.dec)
    IN  RLt(ToRat(radius * radius), RAdd(RMul(dx, dx), RMul(dy, dy)))

\* the samples of the detector that the mask leaves: those whose offset
\* pointing is outside the radius
Unmasked(ms, det, fr) ==
    LET x == PointingX(det, fr)
        y == PointingY(det, fr)
    IN  { k \in DOMAIN y : Outside(x[k], y[k], ms.center, ms.radius) }

\* mutant: the mean of all the samples, the mask forgotten
MeanOfAll(samples, keep) == Mean(samples)

\* the mean of the samples kept; of no samples it is nan
MaskedMean(samples, keep) ==
    FloatDiv(RSum([k \in DOMAIN samples |-> IF k \in keep THEN samples[k] ELSE <<0, 1>>]),
             ToRat(Cardinality(keep)))

\* every sample, kept or not, less the mean of the kept ones
SubtractMaskedMean(samples, keep) ==
    [k \in DOMAIN samples |-> FloatSub(samples[k], MaskedMean(samples, keep))]

\* the means the module computes for a frame, by detector
MaskedMeans(ms, fr) ==
    LET ts == FloatMap(fr["CalTimestreams"])
    IN  [det \in DOMAIN ts |-> MaskedMean(ts[det].data, Unmasked(ms, det, fr))]

\* the MaskedMeanFilter module on a frame
MaskedMeanFilter(ms, fr) ==
    IF ~Has(fr, "CalTimestreams") THEN fr
    ELSE LET ts == FloatMap(fr["CalTimestreams"])
         IN  Put(fr, "FilteredTimestreams",
                 [det \in DOMAIN ts |->
                     [ts[det] EXCEPT !.data =
                         SubtractMaskedMean(ts[det].data, Unmasked(ms, det, fr))]])

\* raw samples of a scan: a flat background, and one sample raised by a spike
Spikes == {0, 1, 5}
SpikeSamples ==
    { [k \in 1..NSamp |-> b + (IF k = i THEN h ELSE 0)] :
        b \in Vals, i \in 1..NSamp, h \in Spikes }

\* the scans handed to the filter
MaskFrames ==
    { BareFrame("false") }
    \cup { CalibrateArray(ScanFrame("false", dom, v, DecScan(d), RaScan(r, s))) :
              dom \in {{"d0"}, {"d0", "d1"}}, v \in SpikeSamples,
              d \in DecVals, r \in {0, 1}, s \in Steps }

\* the source positions and mask radii
Centers == { [ra |-> 0, dec |-> 0], [ra |-> 1, dec |-> 1] }
Radii == {0, 1}

InitMasked ==
    /\ LET gp == CHOOSE g \in GridParams : g.xlen = 2 /\ g.ylen = 1 /\ g.res = 1
       IN  /\ nx = NumBins(gp.xlen, gp.res)
           /\ ny = NumBins(gp.ylen, gp.res)
           /\ ra_edges = Edges(gp.xlen, nx, gp.ra0)
           /\ dec_edges = Edges(gp.ylen, ny, gp.dec0)
    /\ \E c \in Centers, r \in Radii : mask = [center |-> c, radius |-> r]
    /\ binner = NewBinner("d0", "FilteredTimestreams")
    /\ frame = NoFrame
    /\ filtered = NoResult
    /\ pc = "next"
    /\ nread = 0
    /\ err = "none"
    /\ m = NotFormed
    /\ trace = <<>>
    /\ fell = [p \in Pixels |-> EmptyBag]
    /\ stream = <<>>
    /\ order = <<>>
    /\ other = NoBinner
    /\ calibrated = NoResult
    /\ parts = <<>>

\* the next scan arrives at the filter; what became of the last one is gone
NextMaskScan ==
    /\ pc = "next"
    /\ nread < MaxFrames
    /\ \E fr \in MaskFrames : frame' = fr
    /\ nread' = nread + 1
    /\ filtered' = NoResult
    /\ pc' = "mask"
    /\ UNCHANGED <<grid, mask, parts, binner, err, m, trace, fell, stream, order, other,
                   calibrated>>

\* MaskedMeanFilter on the scan; the means it computed are kept beside it
MaskScan ==
    /\ pc = "mask"
    /\ filtered' = [once |-> MaskedMeanFilter(mask, frame),
                    mean |-> IF Has(frame, "CalTimestreams")
                             THEN MaskedMeans(mask, frame) ELSE <<>>]
    /\ pc' = "next"
    /\ UNCHANGED <<grid, mask, parts, binner, frame, nread, err, m, trace, fell, stream,
                   order, other, calibrated>>

NextMasked == NextMaskScan \/ MaskScan

SpecMasked == InitMasked /\ [][NextMasked]_vars

----------------------------------------------------------------------------
(* One stream of records through one binner, and split between two others *)

\* mutant: data and hits belong to the class, every instance adds to them
CallShared(bs, i, fr) == [j \in DOMAIN bs |-> BinnerCall(bs[j], fr)]

\* bs[i](fr): __call__ adds to the data and hits of its own instance
CallInstance(bs, i, fr) == [bs EXCEPT ![i] = BinnerCall(bs[i], fr)]

InitMerge ==
    /\ \E gp \in {g \in GridParams : g.xlen = 2 /\ g.res = 1} :
          /\ nx = NumBins(gp.xlen, gp.res)
          /\ ny = NumBins(gp.ylen, gp.res)
          /\ ra_edges = Edges(gp.xlen, nx, gp.ra0)
          /\ dec_edges = Edges(gp.ylen, ny, gp.dec0)
    /\ \E det \in DOMAIN xoff \cap DOMAIN yoff :
          /\ binner = NewBinner(det, "CalTimestreams")
          /\ parts = <<NewBinner(det, "CalTimestreams"), NewBinner(det, "CalTimestreams")>>
    /\ stream \in [1..MaxFrames -> OrderFrames]
    /\ order \in [1..MaxFrames -> {1, 2}]
    /\ pc = "ingest"
    /\ frame = NoFrame
    /\ nread = 0
    /\ err = "none"
    /\ m = NotFormed
    /\ trace = <<>>
    /\ fell = [p \in Pixels |-> EmptyBag]
    /\ other = NoBinner
    /\ calibrated = NoResult
    /\ filtered = NoResult
    /\ mask = NoMask

\* binner(frame) on the next record of the stream
IngestWhole ==
    /\ nread < Len(stream)
    /\ binner' = BinnerCall(binner, stream[nread + 1])
    /\ nread' = nread + 1
    /\ UNCHANGED <<grid, mask, parts, pc, frame, err, m, trace, fell, stream, order, other,
                   calibrated, filtered>>

\* the next record of the stream goes to the one of the two binners that
\* order chose for it
IngestPart ==
    /\ Len(trace) < Len(stream)
    /\ LET k == Len(trace) + 1
       IN  /\ parts' = CallInstance(parts, order[k], stream[k])
           /\ trace' = Append(trace, <<"part", order[k], k>>)
    /\ UNCHANGED <<grid, mask, binner, pc, frame, nread, err, m, fell, stream, order, other,
                   calibrated, filtered>>

NextMerge == IngestWhole \/ IngestPart

SpecMerge == InitMerge /\ [][NextMerge]_vars

----------------------------------------------------------------------------
(* Properties *)

RECURSIVE BagSum(_)
BagSum(B) ==
    IF DOMAIN B = {} THEN 0
    ELSE LET v == CHOOSE w \in DOMAIN B : TRUE
         IN  v * B[v] + BagSum([w \in DOMAIN B \ {v} |-> B[w]])

\* the arithmetic mean of the samples of a bag, nan of an empty one
BagMean(B) == FloatDiv(ToRat(BagSum(B)), ToRat(BagCardinality(B)))

\* the scan of the end-to-end scenario, at the model's number of samples:
\* detector "d0" of offset (0,0), y = [0,0], x = [0,1], raw signal [1,2]
\* (calibrated [2,4]), on the grid of edges 0,1,2 by -1/2,1/2
ExampleFrame ==
    CalibrateArray(ScanFrame("false", Dets, [k \in 1..NSamp |-> k],
                             DecScan(0), RaScan(0, 1)))
ExampleGrid == nx = 2 /\ ny = 1 /\ ra_edges[1] = <<0, 1>> /\ ra_edges[3] = <<2, 1>>

\* C1: in every state of a run, for every pixel with hits > 0 the quotient
\* data / hits is the arithmetic mean of all the samples, of all the records the
\* binner has processed, whose offset pointing fell in the pixel; and the scan of
\* the end-to-end scenario, binned on a grid aligned to its samples, gives each
\* sample its own pixel with hit count 1.
C1_MeanOfFallenSamples ==
    /\ \A p \in Pixels :
          binner.hits[p] > 0 =>
             FloatDiv(ToRat(binner.data[p]), ToRat(binner.hits[p])) = BagMean(fell[p])
    /\ (pc = "bin" /\ nread = 1 /\ frame = ExampleFrame /\ binner.det = "d0"
           /\ ExampleGrid /\ NSamp = nx) =>
          LET b == BinnerCall(binner, frame)
          IN  /\ b.data = [p \in Pixels |-> frame["CalTimestreams"]["d0"].data[p[2]]]
              /\ b.hits = [p \in Pixels |-> 1]

\* the end-to-end scenario is about to be binned
C1_ExampleReached ==
    pc = "bin" /\ nread = 1 /\ frame = ExampleFrame /\ binner.det = "d0"
        /\ ExampleGrid /\ NSamp = nx

\* C1 witness: a pixel holds three samples of different values from two records
C1_Witness ==
    /\ nread = 2
    /\ \E i, j \in 1..Len(trace) :
          i # j /\ trace[i] = <<"binner", 1, "binned">> /\ trace[j] = <<"binner", 2, "binned">>
    /\ \E p \in Pixels :
          /\ binner.hits[p] = 3
          /\ Cardinality(DOMAIN fell[p]) >= 2
          /\ binner.data[p] = BagSum(fell[p])

\* C2: a frame that lacks the binner's timestream key, or whose timestream map
\* has no entry for the binner's detector, leaves data and hits as they were,
\* raises nothing, and the pipeline goes on to read the next frame.
C2_SkipIsNoOp ==
    [][ (pc = "bin" /\ (\/ binner.timestreams \notin DOMAIN frame
                         \/ binner.det \notin DOMAIN frame[binner.timestreams]))
        => /\ binner'.data = binner.data
           /\ binner'.hits = binner.hits
           /\ err' = "none"
           /\ pc' = "read" ]_vars

\* C2 witness: after a frame that put samples in the map, the binner has skipped
\* a frame, the map is as the first frame left it, and the reader is next
C2_Witness ==
    /\ pc = "read" /\ nread = 2 /\ err = "none"
    /\ trace[Len(trace)] = <<"binner", 2, "skipped">>
    /\ \E i \in 1..Len(trace) : trace[i] = <<"binner", 1, "binned">>
    /\ \E p \in Pixels : binner.hits[p] > 0 /\ binner.data[p] = BagSum(fell[p])

\* C3 (as claimed): a binner constructed for a detector without offset entry has
\* reported the error before any frame is read.
C3_UnknownDetFailsFast ==
    (binner.det \notin DOMAIN xoff \/ binner.det \notin DOMAIN yoff)
        => (err # "none" /\ nread = 0)

\* C4: once the map is formed, every pixel without hits is not-a-number in it.
C4_NoHitsIsNaN ==
    m.formed => \A p \in Pixels : binner.hits[p] = 0 => m.value[p] = NaN

\* C4 witness: a map formed after a stream that hit some pixels and not others
C4_Witness ==
    /\ m.formed
    /\ \E p \in Pixels : binner.hits[p] = 0 /\ m.value[p] = NaN
    /\ \E p \in Pixels : binner.hits[p] > 0 /\ IsFinite(m.value[p])

StageRank(stage) ==
    CASE stage = "filter" -> 1 [] stage = "Calibrate" -> 2 [] OTHER -> 3

Called(module, k) == \E i \in 1..Len(trace) : trace[i][1] = module /\ trace[i][2] = k

\* frame k has left the pipeline: the filter dropped it, or every module got it
Completed(k) ==
    \/ /\ \E i \in 1..Len(trace) : trace[i] = <<"filter", k, "dropped">>
       /\ ~Called("Calibrate", k) /\ ~Called("binner", k)
    \/ /\ \E i \in 1..Len(trace) : trace[i] = <<"filter", k, "kept">>
       /\ Called("Calibrate", k) /\ Called("binner", k)

\* C6: the modules are called frame by frame in the order the reader yields the
\* frames, for each frame in the order filter, Calibrate, binner and each at
\* most once; and when a frame is read every earlier frame has left the
\* pipeline, dropped by the filter or handled by all three modules.
C6_Sequential ==
    /\ \A i, j \in 1..Len(trace) :
          i < j => \/ trace[i][2] < trace[j][2]
                   \/ /\ trace[i][2] = trace[j][2]
                      /\ StageRank(trace[i][1]) < StageRank(trace[j][1])
    /\ \A i \in 1..Len(trace) : trace[i][2] \in 1..nread
    /\ \A k \in 1..nread :
          (k < nread \/ pc \in {"read", "done", "shown"}) => Completed(k)

\* C6 witness: two frames have gone through all three modules, one after the other
C6_Witness ==
    /\ pc = "read" /\ nread = 2
    /\ trace = << <<"filter", 1, "kept">>, <<"Calibrate", 1, "stored">>,
                  <<"binner", 1, "binned">>, <<"filter", 2, "kept">>,
                  <<"Calibrate", 2, "stored">>, <<"binner", 2, "binned">> >>
    /\ \E p \in Pixels : binner.hits[p] > NSamp

\* C7: when the binner is about to bin a frame for a detector whose x-offset and
\* y-offset are both zero, the pointing it computes is the boresight pointing,
\* sample by sample.
C7_ZeroOffsetIsBoresight ==
    (/\ pc = "bin"
     /\ ~BinnerSkips(binner, frame)
     /\ binner.det \in DOMAIN xoff \cap DOMAIN yoff
     /\ xoff[binner.det] = 0 /\ yoff[binner.det] = 0)
        => /\ PointingY(binner.det, frame) = frame["BoresightDec"]
           /\ \A k \in DOMAIN frame["BoresightRa"] :
                 PointingX(binner.det, frame)[k] = ToRat(frame["BoresightRa"][k])

\* C7 witness: such a frame, off the equator and moving in right ascension
C7_Witness ==
    /\ pc = "bin"
    /\ ~BinnerSkips(binner, frame)
    /\ binner.det = "d0"
    /\ frame["BoresightDec"][1] # 0
    /\ frame["BoresightRa"][1] # frame["BoresightRa"][NSamp]
    /\ frame["BoresightRa"][1] # 0

\* the edges of an axis: one more than its bins, strictly increasing
EdgesOk(edges, n) ==
    /\ Len(edges) = n + 1
    /\ \A k \in 1..n : RLt(edges[k], edges[k + 1])

GridOk ==
    /\ EdgesOk(ra_edges, nx)
    /\ EdgesOk(dec_edges, ny)
    /\ DOMAIN binner.data = (1..ny) \X (1..nx)
    /\ DOMAIN binner.hits = (1..ny) \X (1..nx)

\* C8: each axis of N bins has N+1 edges, strictly increasing, data and hits have
\* shape (ny, nx), and no step of the pipeline changes the grid or the shapes.
C8_GridInvariant ==
    GridOk /\ [][GridOk' /\ grid' = grid]_vars

\* C8 witness: samples have been binned on a grid with more columns than rows
C8_Witness ==
    /\ nx > ny
    /\ GridOk
    /\ \E p \in Pixels : p[2] = nx /\ binner.hits[p] > 0

\* C9: once both versions of Calibrate have been called on a frame, they have
\* left the same frame (and raised alike); and unless a detector has no
\* calibration constant, CalTimestreams holds, for every detector of
\* RawTimestreams, the raw samples times the detector's constant, in cal_units.
C9_CalibrateVersionsAgree ==
    DOMAIN calibrated = {"loop", "array"} =>
        /\ calibrated["loop"] = calibrated["array"]
        /\ (Has(frame, "RawTimestreams") /\ calibrated["array"].err = "none") =>
              LET raw == frame["RawTimestreams"]
                  out == calibrated["array"].frame["CalTimestreams"]
              IN  /\ DOMAIN out = DOMAIN raw
                  /\ \A d \in DOMAIN raw :
                        /\ out[d].units = cal_units
                        /\ Len(out[d].data) = Len(raw[d].data)
                        /\ \A k \in DOMAIN raw[d].data :
                              out[d].data[k] = raw[d].data[k] * cal[d]

\* C9 witness: both versions have calibrated two detectors of different
\* constants and different samples
C9_Witness ==
    /\ DOMAIN calibrated = {"loop", "array"}
    /\ Has(frame, "RawTimestreams")
    /\ DOMAIN frame["RawTimestreams"] = {"d0", "d1"}
    /\ frame["RawTimestreams"]["d0"].data # frame["RawTimestreams"]["d1"].data
    /\ frame["RawTimestreams"]["d0"].start # 0
    /\ calibrated["loop"].frame["CalTimestreams"]["d1"].data[1] = 3 * frame["RawTimestreams"]["d1"].data[1]
    /\ calibrated["array"].frame["CalTimestreams"]["d0"].units = cal_units

\* C10: a second pass of MeanFilter over a scan leaves the samples of the first
\* pass; and the first pass takes from each detector's samples the mean of that
\* detector's samples in that scan, whatever scans came before.
C10_MeanFilterIdempotent ==
    (pc = "next" /\ nread > 0) =>
        /\ filtered.twice = filtered.once
        /\ Has(frame, "CalTimestreams") =>
              \A d \in DOMAIN frame["CalTimestreams"] :
                 LET x == frame["CalTimestreams"][d].data
                     f == filtered.once["FilteredTimestreams"][d].data
                 IN  \A k \in DOMAIN x :
                        f[k] = Rat(Len(x) * x[k] - SumSeq(x), Len(x))

\* C10 witness: the second of two scans, of two detectors with samples that are
\* not constant, filtered twice
C10_Witness ==
    /\ pc = "next" /\ nread = 2
    /\ Has(frame, "CalTimestreams")
    /\ DOMAIN frame["CalTimestreams"] = {"d0", "d1"}
    /\ \A d \in {"d0", "d1"} :
          /\ frame["CalTimestreams"][d].data[1] # frame["CalTimestreams"][d].data[NSamp]
          /\ filtered.twice["FilteredTimestreams"][d].data[1] # <<0, 1>>
          /\ RSum(filtered.once["FilteredTimestreams"][d].data) = <<0, 1>>

\* the record d of the frame is a flat background but for sample i
FlatBut(d, i) ==
    LET x == frame["CalTimestreams"][d].data
    IN  \A j, k \in DOMAIN x \ {i} : x[j] = x[k]

\* the sum of the samples of x at the indices in K
RECURSIVE SumAt(_, _)
SumAt(x, K) ==
    IF K = {} THEN 0
    ELSE LET k == CHOOSE j \in K : TRUE IN x[k] + SumAt(x, K \ {k})

\* the filter has handled a scan with timestreams
MaskedDone == pc = "next" /\ nread > 0 /\ Has(frame, "CalTimestreams")

\* C11: after the filter, for every detector with samples outside the radius,
\* every filtered sample, inside the radius or not, is the sample less the mean
\* of the samples outside the radius; and whenever the record is a flat
\* background but for one sample inside the radius, the mean computed for it is
\* the background, whatever the sample inside.  (With every sample inside the
\* radius there is no background to take a mean of.)
C11_MaskedMean ==
    MaskedDone =>
        \A d \in DOMAIN frame["CalTimestreams"] :
           LET x == frame["CalTimestreams"][d].data
               f == filtered.once["FilteredTimestreams"][d].data
               K == { k \in DOMAIN x :
                        LET px == RAdd(ToRat(frame["BoresightRa"][k]),
                                       FloatDiv(ToRat(xoff[d]),
                                                Cos(frame["BoresightDec"][k] - yoff[d])))
                            py == frame["BoresightDec"][k] - yoff[d]
                            ex == RSub(px, ToRat(mask.center.ra))
                        IN  RLt(ToRat(mask.radius * mask.radius),
                                RAdd(RMul(ex, ex),
                                     ToRat((py - mask.center.dec) * (py - mask.center.dec)))) }
               n == Cardinality(K)
           IN  n > 0 =>
                  /\ \A k \in DOMAIN x : f[k] = Rat(n * x[k] - SumAt(x, K), n)
                  /\ \A i \in DOMAIN x \ K :
                        FlatBut(d, i) =>
                           \A j \in DOMAIN x \ {i} : filtered.mean[d] = ToRat(x[j])

\* C11 witness: a scan of two detectors has been filtered; one has a spike
\* inside the radius over a flat background outside it, and its filtered
\* samples are the spike less the background, and zero
C11_Witness ==
    /\ MaskedDone
    /\ DOMAIN frame["CalTimestreams"] = {"d0", "d1"}
    /\ Unmasked(mask, "d0", frame) # Unmasked(mask, "d1", frame)
    /\ \E i \in 1..NSamp :
          LET x == frame["CalTimestreams"]["d1"].data
              f == filtered.once["FilteredTimestreams"]["d1"].data
              b == x[IF i = 1 THEN 2 ELSE 1]
          IN  /\ Unmasked(mask, "d1", frame) = (1..NSamp) \ {i}
              /\ FlatBut("d1", i)
              /\ x[i] = b + 15
              /\ filtered.mean["d1"] = ToRat(b)
              /\ f[i] = ToRat(15)
              /\ \A j \in (1..NSamp) \ {i} : f[j] = <<0, 1>>

\* element-wise sum of two grids
AddGrids(a, b) == [p \in Pixels |-> a[p] + b[p]]

OffsetY(k) == frame["BoresightDec"][k] - yoff[binner.det]
OffsetX(k) ==
    RAdd(ToRat(frame["BoresightRa"][k]),
         FloatDiv(ToRat(xoff[binner.det]), Cos(OffsetY(k))))

\* the samples of the frame in flight that so pointed lie in pixel p
PointedAt(p) ==
    { k \in 1..NSamp : /\ InBin(dec_edges, p[1], ToRat(OffsetY(k)))
                       /\ InBin(ra_edges, p[2], OffsetX(k)) }

\* the binner has a frame with samples of its detector, whose offsets are known
BinsFrame ==
    /\ pc = "bin"
    /\ "CalTimestreams" \in DOMAIN frame
    /\ binner.det \in DOMAIN frame["CalTimestreams"]
    /\ binner.det \in DOMAIN xoff \cap DOMAIN yoff

\* C13: when the binner bins a frame, each pixel gains one hit, and the sample's
\* value, for every sample whose boresight y less the detector's y-offset, and
\* boresight x plus the x-offset over the cosine of that offset-corrected y,
\* lie in the pixel.
C13_PointingReconstruction ==
    [][ BinsFrame =>
          \A p \in Pixels :
             /\ binner'.hits[p] = binner.hits[p] + Cardinality(PointedAt(p))
             /\ binner'.data[p] = binner.data[p]
                   + SumAt(frame["CalTimestreams"][binner.det].data, PointedAt(p)) ]_vars

\* C13 witness: a frame has been binned for the detector with both offsets on
\* the grid of one row and three columns; its samples are in the second column,
\* where the boresight at declination 1 and right ascension 0 points with the
\* cosine of 1 - 1, and not in the third, where the cosine of 1 would have put
\* them
C13_Witness ==
    /\ pc = "read" /\ nread = 1 /\ binner.det = "d1"
    /\ trace[Len(trace)] = <<"binner", 1, "binned">>
    /\ nx = 3 /\ ny = 1
    /\ \E p \in Pixels : p[2] = 2 /\ binner.hits[p] = NSamp /\ binner.data[p] > 0
    /\ \A p \in Pixels : p[2] = 3 => binner.hits[p] = 0

\* the frame in flight has a Turnaround field that is true
IsTurnaround == "Turnaround" \in DOMAIN frame /\ frame["Turnaround"] = TRUE

\* C14: a frame whose Turnaround is true goes from the filter out of the
\* pipeline, with data and hits as they were, so that no frame at Calibrate or
\* at the binner, and none with CalTimestreams, is a turnaround, and neither
\* module is ever called for a frame the filter dropped; a frame without a
\* Turnaround field goes from the filter to Calibrate as it is.
C14_TurnaroundDropped ==
    /\ []( /\ (pc \in {"calibrate", "bin", "error"} \/ "CalTimestreams" \in DOMAIN frame)
               => ~IsTurnaround
           /\ \A i \in 1..Len(trace) :
                 trace[i][3] = "dropped" =>
                    \A j \in 1..Len(trace) :
                       trace[j][2] = trace[i][2] => trace[j][1] = "filter" )
    /\ [][ /\ (pc = "filter" /\ IsTurnaround)
               => /\ pc' = "read" /\ frame' = NoFrame
                  /\ binner'.data = binner.data /\ binner'.hits = binner.hits
                  /\ trace'[Len(trace')] = <<"filter", nread, "dropped">>
           /\ (pc = "filter" /\ "Turnaround" \notin DOMAIN frame)
               => pc' = "calibrate" /\ frame' = frame ]_vars

\* C14 witness: the first frame put samples in the map, the second was dropped
\* by the filter and the map is as the first left it
C14_Witness ==
    /\ pc = "read" /\ nread = 2 /\ err = "none"
    /\ trace = << <<"filter", 1, "kept">>, <<"Calibrate", 1, "stored">>,
                  <<"binner", 1, "binned">>, <<"filter", 2, "dropped">> >>
    /\ \E p \in Pixels : binner.hits[p] > 0
    /\ \A p \in Pixels : binner.hits[p] = BagCardinality(fell[p])

\* the samples of the frame in flight whose offset pointing is on the grid:
\* from the first edge to the last, both included, on both axes
OnGrid ==
    { k \in 1..NSamp :
        /\ RLe(dec_edges[1], ToRat(OffsetY(k))) /\ RLe(ToRat(OffsetY(k)), dec_edges[ny + 1])
        /\ RLe(ra_edges[1], OffsetX(k)) /\ RLe(OffsetX(k), ra_edges[nx + 1]) }

\* C15: in every state each hits entry is a natural number and a pixel without
\* hits has no data; no step lowers a hits entry; a call of the binner on a
\* frame with samples of its detector raises the sum of hits by the number of
\* the frame's samples that point on the grid and the sum of data by their
\* values, so that samples off the grid add nothing; and every other step
\* leaves hits and data as they were.
C15_HitsCountGridSamples ==
    /\ [](\A p \in Pixels :
            /\ binner.hits[p] \in Nat
            /\ binner.hits[p] = 0 => binner.data[p] = 0)
    /\ [][ /\ \A p \in Pixels : binner'.hits[p] >= binner.hits[p]
           /\ IF BinsFrame
              THEN /\ SumAt(binner'.hits, Pixels) = SumAt(binner.hits, Pixels)
                                                      + Cardinality(OnGrid)
                   /\ SumAt(binner'.data, Pixels) = SumAt(binner.data, Pixels)
                         + SumAt(frame["CalTimestreams"][binner.det].data, OnGrid)
              ELSE binner'.hits = binner.hits /\ binner'.data = binner.data ]_vars

\* C15 witness: two frames have been binned, some of their samples on the grid
\* and some off it; a pixel of the last column has two hits or more, another
\* pixel none
C15_Witness ==
    /\ pc = "read" /\ nread = 2
    /\ Len(trace) = 6
    /\ trace[3] = <<"binner", 1, "binned">> /\ trace[6] = <<"binner", 2, "binned">>
    /\ SumAt(binner.hits, Pixels) \in 2..(2 * NSamp - 1)
    /\ \E p \in Pixels : binner.hits[p] = 0 /\ binner.data[p] = 0
    /\ \E p \in Pixels : p[2] = nx /\ binner.hits[p] >= 2

====
